---------------------------- MODULE Spec2Model ----------------------------
(***************************************************************************)
(* A model of gkeep2notion.py: the Google Keep -> Notion importer.         *)
(*                                                                         *)
(* Python strings are sequences of one-character strings, so that          *)
(* splitting, matching, lower-casing and concatenation are computed and    *)
(* not assumed.  Page objects live in a heap indexed by object identity.   *)
(* Notion identifiers are sequences of numbers: << >> is the empty string  *)
(* a fresh Page carries, <<0>> the configured root, <<k>> the k-th id the  *)
(* service returned.  RichText chunking (URL splitting) is not modelled:   *)
(* a block holds the text handed to add_text / add_todo.                   *)
(***************************************************************************)
EXTENDS Integers, Sequences, FiniteSets, TLC

VARIABLES
    pc,            \* position of the single control flow
    config,        \* Config object: import_notes, import_todos, merge_paragraphs
    heap,          \* Page objects by object identity
    nextOid,       \* next fresh object identity
    notes, todos,  \* module globals: the two root pages (object identities)
    categories,    \* module global dict: key (string) -> Page object identity
    gnote,         \* loop variable of the import loop
    i,             \* item counter of the import loop
    page,          \* module global: the page being built (object identity, 0 = unbound)
    parent,        \* importPageWithCategories' local `parent`
    text, lines, x, last_block,   \* parseTextToPage's argument and locals
    hist,          \* history of parseTextToPage: branch taken, lines joined
    cp,            \* create_page's frame: page, notion_page id, batch index
    service,       \* the Notion service: ids issued, last request, batches received
    throttle,      \* Throttle object: last_call
    clock,         \* time.time(), in ticks
    timing,        \* history of throttle.wait: return instants, sleeps
    keyring,       \* keyring entry for ('gkeep2notion', email)
    auth           \* history of login: interactive attempts, store writes, resume outcome

vars == << pc, config, heap, nextOid, notes, todos, categories, gnote, i, page,
           parent, text, lines, x, last_block, hist, cp, service, throttle,
           clock, timing, keyring, auth >>

-----------------------------------------------------------------------------
(* Bounds of the model *)

MaxLines == 3
MaxLongLines == 2
MaxItems == 2
MaxTodoItems == 2
MaxBatches == 2
MaxCalls == 3
MaxGap == 5
MaxOvershoot == 1
TicksPerInterval == 3

(* Program constants *)

MergeCap == 2000
BatchSize == 100
RateLimit == 3

-----------------------------------------------------------------------------
(* Strings *)

S1(a) == << a >>

Digits == {"0", "1", "2", "3", "4", "5", "6", "7", "8", "9"}
Whitespace == {" ", "\t"}
Newline == "\n"

Tail_(s, k) == SubSeq(s, k, Len(s))

\* str.lower(), on the letters the model uses
LowerChar(c) ==
    CASE c = "T" -> "t" [] c = "R" -> "r" [] c = "U" -> "u" [] c = "E" -> "e"
      [] c = "F" -> "f" [] c = "A" -> "a" [] c = "L" -> "l" [] c = "S" -> "s"
      [] OTHER -> c

Lower(s) == [k \in 1..Len(s) |-> LowerChar(s[k])]

\* truth value of a Python str
Truthy(s) == Len(s) > 0

RECURSIVE JoinWith(_, _)
JoinWith(ls, sep) ==
    IF Len(ls) = 0 THEN << >>
    ELSE IF Len(ls) = 1 THEN ls[1]
    ELSE ls[1] \o sep \o JoinWith(Tail(ls), sep)

\* str.splitlines(), on texts whose only line boundary is "\n": the pieces
\* between consecutive newlines, without a last piece that is empty
splitlines(s) ==
    LET nl == { k \in 1..Len(s) : s[k] = Newline }
        cut(j) == IF j = 0 THEN 0
                  ELSE IF j > Cardinality(nl) THEN Len(s) + 1
                  ELSE CHOOSE k \in nl : Cardinality({ m \in nl : m < k }) = j - 1
        piece(j) == SubSeq(s, cut(j - 1) + 1, cut(j) - 1)
        n == Cardinality(nl) + 1
        pieces == [j \in 1..n |-> piece(j)]
    IN  IF Len(pieces[n]) = 0 THEN SubSeq(pieces, 1, n - 1) ELSE pieces

-----------------------------------------------------------------------------
(* parseBlock: the three regular expressions, matched as re.match does *)

\* number of leading characters of s that are in class
RECURSIVE Span(_, _)
Span(s, class) ==
    IF Len(s) > 0 /\ s[1] \in class THEN 1 + Span(Tail(s), class) ELSE 0

\* \s+(.+) against the whole of s: greedy \s+ gives back one character when
\* nothing else is left for (.+); the group runs to the end of the line
MatchesWsText(s) == Len(s) >= 2 /\ s[1] \in Whitespace

WsTextGroup(s) ==
    LET w == Span(s, Whitespace)
        used == IF w = Len(s) THEN w - 1 ELSE w
    IN  Tail_(s, used + 1)

\* ^(\d+)\.\s+(.+)
NumberedMatch(p) ==
    LET d == Span(p, Digits)
    IN  /\ d >= 1
        /\ Len(p) > d
        /\ p[d + 1] = "."
        /\ MatchesWsText(Tail_(p, d + 2))

NumberedText(p) == WsTextGroup(Tail_(p, Span(p, Digits) + 2))

\* ^\s*(\*|-)\s+(.+)
BulletedMatch(p) ==
    LET w == Span(p, Whitespace)
    IN  /\ Len(p) > w
        /\ p[w + 1] \in {"*", "-"}
        /\ MatchesWsText(Tail_(p, w + 2))

BulletedText(p) == WsTextGroup(Tail_(p, Span(p, Whitespace) + 2))

\* ^>\s+(.+)
QuoteMatch(p) ==
    /\ Len(p) > 0
    /\ p[1] = ">"
    /\ MatchesWsText(Tail_(p, 2))

QuoteText(p) == WsTextGroup(Tail_(p, 2))

Paragraph == "paragraph"
BulletedListItem == "bulleted_list_item"
NumberedListItem == "numbered_list_item"
Quote == "quote"
ToDo == "to_do"

parseBlock(p) ==
    IF NumberedMatch(p) THEN [type |-> NumberedListItem, text |-> NumberedText(p)]
    ELSE IF BulletedMatch(p) THEN [type |-> BulletedListItem, text |-> BulletedText(p)]
    ELSE IF QuoteMatch(p) THEN [type |-> Quote, text |-> QuoteText(p)]
    ELSE [type |-> Paragraph, text |-> p]


-----------------------------------------------------------------------------
(* Page objects *)

EmptyId == << >>

\* Page.__init__; submitted and assigned are history: how often the object
\* was handed to notion.pages.create, how often its id setter ran
Page(title, parent_id) ==
    [title |-> title, parent_id |-> parent_id, id |-> EmptyId,
     children |-> << >>, submitted |-> 0, assigned |-> 0]

add_text(pg, txt, type) ==
    [pg EXCEPT !.children = Append(@, [type |-> type, text |-> txt])]

add_todo(pg, txt, checked) ==
    [pg EXCEPT !.children = Append(@, [type |-> ToDo, text |-> txt, checked |-> checked])]

-----------------------------------------------------------------------------
(* parseTextToPage *)

None == [type |-> "None", text |-> << >>]

NoHist == [branch |-> "none", joined |-> 0, concat |-> {}]

\* a variant whose length test admits the cap itself
CanMergeBroken(last, block) ==
    /\ last.type = Paragraph
    /\ last.type = block.type
    /\ Len(last.text) + Len(block.text) <= MergeCap

\* the condition under which a pending block and the next line are concatenated
CanMerge(last, block) ==
    /\ last.type = Paragraph
    /\ last.type = block.type
    /\ Len(last.text) + Len(block.text) < MergeCap

\* `if not config.merge_paragraphs`: the value is the raw string of the ini file
Unmerged(cfg) == ~Truthy(cfg.merge_paragraphs)

ParseTextToPageEnter ==
    /\ pc = "parseTextToPage"
    /\ lines' = Append(splitlines(text), << >>)
    /\ last_block' = None
    /\ x' = 0
    /\ hist' = NoHist
    /\ pc' = "parse_loop"
    /\ UNCHANGED << config, heap, nextOid, notes, todos, categories, gnote, i, page,
                    parent, text, cp, service, throttle, clock, timing, keyring, auth >>

\* one iteration of `for x in range(0, len(lines))`
ParseTextToPageLine ==
    /\ pc = "parse_loop"
    /\ x < Len(lines)
    /\ LET p == lines[x + 1]
           block == parseBlock(p)
           merge == last_block # None /\ CanMerge(last_block, block)
           pending == IF merge
                      THEN [last_block EXCEPT !.text = @ \o S1(Newline) \o block.text]
                      ELSE last_block
           nkids == Len(heap[page].children)
       IN  IF Unmerged(config)
           THEN /\ heap' = [heap EXCEPT ![page] = add_text(@, block.text, block.type)]
                /\ hist' = [hist EXCEPT !.branch = "unmerged"]
                /\ UNCHANGED last_block
           ELSE IF last_block # None
           THEN IF merge /\ x < Len(lines) - 1
                THEN /\ last_block' = pending
                     /\ hist' = [hist EXCEPT !.branch = "merged", !.joined = @ + 1]
                     /\ UNCHANGED heap
                ELSE /\ heap' = [heap EXCEPT ![page] = add_text(@, pending.text, pending.type)]
                     /\ last_block' = block
                     /\ hist' = [branch |-> "merged", joined |-> 1,
                                 concat |-> IF merge \/ hist.joined > 1
                                            THEN hist.concat \cup {nkids + 1}
                                            ELSE hist.concat]
           ELSE /\ last_block' = block
                /\ hist' = [hist EXCEPT !.branch = "merged", !.joined = 1]
                /\ UNCHANGED heap
    /\ x' = x + 1
    /\ UNCHANGED << pc, config, nextOid, notes, todos, categories, gnote, i, page,
                    parent, text, lines, cp, service, throttle, clock, timing,
                    keyring, auth >>

NoItem == [kind |-> "none"]

\* the loop is over: back to the caller (parseNote inside the import loop, or
\* the end of a stand-alone call)
ParseTextToPageReturn ==
    /\ pc = "parse_loop"
    /\ x = Len(lines)
    /\ pc' = IF gnote = NoItem THEN "parsed" ELSE "create_item_page"
    /\ UNCHANGED << config, heap, nextOid, notes, todos, categories, gnote, i, page,
                    parent, text, lines, x, last_block, hist, cp, service, throttle,
                    clock, timing, keyring, auth >>

-----------------------------------------------------------------------------
(* Inputs of a stand-alone parseTextToPage call *)

Str_a == << "a" >>
Str_b == << "b" >>
Str_first == << "1", ".", " ", "f", "i", "r", "s", "t" >>
Str_second == << "-", " ", "s", "e", "c", "o", "n", "d" >>
Str_third == << ">", " ", "t", "h", "i", "r", "d" >>
Str_plain == << "p", "l", "a", "i", "n" >>

Filler(n) == [k \in 1..n |-> "x"]

SmallLines == { << >>, Str_a, Str_b, Str_second, << "1", ".", " ", " " >>, << " ", "*", "\t", "z" >> }

LongLines == { Str_a, Filler(MergeCap \div 2 - 1), Filler(MergeCap \div 2),
               Filler(MergeCap - 2), Filler(MergeCap - 1), Filler(MergeCap) }

SeqsUpTo(S, n) == UNION { [1..k -> S] : k \in 0..n }

ExampleBody == JoinWith(<< Str_first, Str_second, Str_third, Str_plain >>, S1(Newline))

Bodies ==
    LET joined == { JoinWith(ls, S1(Newline)) :
                      ls \in SeqsUpTo(SmallLines, MaxLines) \cup SeqsUpTo(LongLines, MaxLongLines) }
    IN  joined \cup { b \o S1(Newline) : b \in joined } \cup { ExampleBody }

\* values of merge_paragraphs in config.ini (an empty value is an empty string)
MergeValues ==
    { << >>, << "t", "r", "u", "e" >>, << "T", "r", "u", "e" >>, << "T", "R", "U", "E" >>,
      << "f", "a", "l", "s", "e" >>, << "F", "A", "L", "S", "E" >> }

\* Config.__init__: the boolean toggles are compared with 'true' after lower();
\* merge_paragraphs is kept as read
ConfigOf(import_notes, import_todos, merge_paragraphs, root_uuid) ==
    [import_notes |-> (Lower(import_notes) = << "t", "r", "u", "e" >>),
     import_todos |-> (Lower(import_todos) = << "t", "r", "u", "e" >>),
     merge_paragraphs |-> merge_paragraphs,
     root_uuid |-> root_uuid]

RootUuid == << 0 >>

NoFrame == [page |-> 0, notion_id |-> EmptyId, idx |-> 0, ret |-> "none"]
NoRequest == [oid |-> 0, parent_id |-> EmptyId, id |-> 0]
IdleService == [issued |-> 0, lastReq |-> NoRequest, received |-> << >>, catMade |-> << >>]
IdleTiming == [calls |-> 0, prev_return |-> 0, last_return |-> 0, slept |-> 0]
NoToken == [present |-> FALSE, value |-> << >>]
NoAuth == [token |-> NoToken, attempts |-> 0, writes |-> 0, resumeFailed |-> FALSE, ok |-> FALSE]

InitParse ==
    /\ pc = "parseTextToPage"
    /\ text \in Bodies
    /\ \E m \in MergeValues :
         config = ConfigOf(<< "t", "r", "u", "e" >>, << "t", "r", "u", "e" >>, m, RootUuid)
    /\ heap = (1 :> Page(Str_a, RootUuid))
    /\ page = 1
    /\ nextOid = 2
    /\ notes = 0 /\ todos = 0 /\ parent = 0
    /\ categories = << >>
    /\ gnote = NoItem
    /\ i = 0
    /\ lines = << >> /\ x = 0 /\ last_block = None /\ hist = NoHist
    /\ cp = NoFrame
    /\ service = IdleService
    /\ throttle = [last_call |-> 0]
    /\ clock = 1
    /\ timing = IdleTiming
    /\ keyring = NoToken
    /\ auth = NoAuth

NextParse ==
    \/ ParseTextToPageEnter
    \/ ParseTextToPageLine
    \/ ParseTextToPageReturn

SpecParse == InitParse /\ [][NextParse]_vars


-----------------------------------------------------------------------------
(* Throttle *)

\* Throttle.__init__: interval = 1 / rate_limit seconds; a second has
\* RateLimit * TicksPerInterval ticks
TicksPerSecond == RateLimit * TicksPerInterval
Interval == TicksPerSecond \div RateLimit

\* a variant that sleeps for the elapsed time
SleepForBroken(last_call, now) ==
    LET elapsed == now - last_call
    IN  IF last_call > 0 /\ elapsed < Interval THEN elapsed ELSE 0

\* the argument of time.sleep in Throttle.wait, 0 when it is not called
SleepFor(last_call, now) ==
    LET elapsed == now - last_call
    IN  IF last_call > 0 /\ elapsed < Interval THEN Interval - elapsed ELSE 0

\* Throttle.wait: time.sleep lasts at least its argument; `late` is the time
\* by which it oversleeps plus the time the statements take.  The call returns
\* at the instant its last statement reads the clock.
ThrottleWait(late) ==
    LET now == clock
        nap == SleepFor(throttle.last_call, now)
        after == now + nap + late
    IN  /\ clock' = after
        /\ throttle' = [throttle EXCEPT !.last_call = after]
        /\ timing' = [calls |-> timing.calls + 1,
                      prev_return |-> timing.last_return,
                      last_return |-> after,
                      slept |-> nap]

-----------------------------------------------------------------------------
(* create_page *)

Min(a, b) == IF a < b THEN a ELSE b

\* a variant whose slice is one block too long
BatchBroken(children, idx) == SubSeq(children, idx + 1, Min(idx + BatchSize + 1, Len(children)))

\* page.children[i : i + 100]
Batch(children, idx) == SubSeq(children, idx + 1, Min(idx + BatchSize, Len(children)))

\* a call create_page(notion, page) that continues at ret
CallCreatePage(oid, ret) ==
    /\ cp' = [page |-> oid, notion_id |-> EmptyId, idx |-> 0, ret |-> ret]
    /\ pc' = "create_page"

\* throttle.wait(); notion.pages.create(parent=page.parent, properties=...).
\* The service refuses a request whose parent id is empty: the exception ends
\* the run.
CreatePageRequest(late) ==
    /\ pc = "create_page"
    /\ ThrottleWait(late)
    /\ LET pg == heap[cp.page]
           ok == pg.parent_id # EmptyId
           nid == service.issued + 1
       IN  /\ heap' = [heap EXCEPT ![cp.page].submitted = @ + 1]
           /\ service' = [service EXCEPT
                            !.issued = IF ok THEN nid ELSE @,
                            !.lastReq = [oid |-> cp.page, parent_id |-> pg.parent_id,
                                         id |-> IF ok THEN nid ELSE 0],
                            !.received = << >>]
           /\ cp' = [cp EXCEPT !.notion_id = IF ok THEN << nid >> ELSE EmptyId]
           /\ pc' = IF ok THEN "cp_append" ELSE "crashed"
    /\ UNCHANGED << config, nextOid, notes, todos, categories, gnote, i, page, parent,
                    text, lines, x, last_block, hist, keyring, auth >>

\* one iteration of `for i in range(0, len(page.children), 100)`
CreatePageAppend ==
    /\ pc = "cp_append"
    /\ cp.idx < Len(heap[cp.page].children)
    /\ service' = [service EXCEPT !.received = Append(@, Batch(heap[cp.page].children, cp.idx))]
    /\ cp' = [cp EXCEPT !.idx = @ + BatchSize]
    /\ UNCHANGED << pc, config, heap, nextOid, notes, todos, categories, gnote, i, page,
                    parent, text, lines, x, last_block, hist, throttle, clock, timing,
                    keyring, auth >>

\* a variant that returns without setting page.id
CreatePageNoAssign ==
    /\ pc = "cp_append"
    /\ cp.idx >= Len(heap[cp.page].children)
    /\ pc' = cp.ret
    /\ cp' = [cp EXCEPT !.ret = "none"]
    /\ UNCHANGED << config, heap, nextOid, notes, todos, categories, gnote, i, page, parent,
                    text, lines, x, last_block, hist, service, throttle, clock, timing,
                    keyring, auth >>

\* page.id = notion_page['id']; return page
CreatePageAssign ==
    /\ pc = "cp_append"
    /\ cp.idx >= Len(heap[cp.page].children)
    /\ heap' = [heap EXCEPT ![cp.page].id = cp.notion_id, ![cp.page].assigned = @ + 1]
    /\ pc' = cp.ret
    /\ cp' = [cp EXCEPT !.ret = "none"]
    /\ UNCHANGED << config, nextOid, notes, todos, categories, gnote, i, page, parent,
                    text, lines, x, last_block, hist, service, throttle, clock, timing,
                    keyring, auth >>

-----------------------------------------------------------------------------
(* create_page called repeatedly, at arbitrary times, on arbitrary pages *)

\* numbers of blocks around the batch boundaries
ChildCounts ==
    { n \in 0..(MaxBatches * BatchSize + 1) :
        \E k \in 0..MaxBatches : n \in { k * BatchSize - 1, k * BatchSize, k * BatchSize + 1 } }

\* a page of n blocks; block k stands for itself
PageOfBlocks(n) == [Page(Str_a, RootUuid) EXCEPT !.children = [k \in 1..n |-> k]]

InitCreate ==
    /\ pc = "idle"
    /\ config = ConfigOf(<< "t", "r", "u", "e" >>, << "t", "r", "u", "e" >>, << >>, RootUuid)
    /\ heap = << >>
    /\ page = 0
    /\ nextOid = 1
    /\ notes = 0 /\ todos = 0 /\ parent = 0
    /\ categories = << >>
    /\ gnote = NoItem
    /\ i = 0
    /\ text = << >> /\ lines = << >> /\ x = 0 /\ last_block = None /\ hist = NoHist
    /\ cp = NoFrame
    /\ service = IdleService
    /\ throttle = [last_call |-> 0]
    /\ clock \in 1..2
    /\ timing = IdleTiming
    /\ keyring = NoToken
    /\ auth = NoAuth

\* the caller: some time after the previous call, build a page and create it
CallerCreates ==
    /\ pc = "idle"
    /\ timing.calls < MaxCalls
    /\ \E n \in ChildCounts, gap \in 0..MaxGap :
         /\ heap' = (nextOid :> PageOfBlocks(n))
         /\ page' = nextOid
         /\ nextOid' = nextOid + 1
         /\ clock' = clock + gap
         /\ CallCreatePage(nextOid, "idle")
    /\ UNCHANGED << config, notes, todos, categories, gnote, i, parent, text, lines, x,
                    last_block, hist, service, throttle, timing, keyring, auth >>

NextCreate ==
    \/ CallerCreates
    \/ \E late \in 0..MaxOvershoot : CreatePageRequest(late)
    \/ CreatePageAppend
    \/ CreatePageAssign

SpecCreate == InitCreate /\ [][NextCreate]_vars


-----------------------------------------------------------------------------
(* login and authenticate *)

\* `if token:` on the result of keyring.get_password (None or a str)
TokenTruthy(tok) == tok.present /\ Truthy(tok.value)

MasterToken == [present |-> TRUE, value |-> << "m" >>]

\* login up to the outcome of keep.resume: the stored token is used when there
\* is one; keep.resume raises or not, as the source service decides
Login ==
    /\ pc = "login"
    /\ IF TokenTruthy(keyring)
       THEN \E resumed \in BOOLEAN :
              /\ auth' = [auth EXCEPT !.token = keyring, !.resumeFailed = ~resumed]
              /\ pc' = IF resumed THEN "roots" ELSE "authenticate"
       ELSE /\ auth' = [auth EXCEPT !.token = keyring]
            /\ pc' = "authenticate"
    /\ UNCHANGED << config, heap, nextOid, notes, todos, categories, gnote, i, page, parent,
                    text, lines, x, last_block, hist, cp, service, throttle, clock,
                    timing, keyring >>

\* a variant that carries on after a failed keep.login
AuthenticateNoExit ==
    /\ pc = "authenticate"
    /\ \E ok \in BOOLEAN :
         /\ auth' = [auth EXCEPT !.attempts = @ + 1, !.ok = ok,
                                 !.writes = IF ok THEN @ + 1 ELSE @]
         /\ keyring' = IF ok THEN MasterToken ELSE keyring
         /\ pc' = "roots"
    /\ UNCHANGED << config, heap, nextOid, notes, todos, categories, gnote, i, page, parent,
                    text, lines, x, last_block, hist, cp, service, throttle, clock, timing >>

\* authenticate: keep.login raises -> exit(); otherwise the master token is
\* stored with keyring.set_password
Authenticate ==
    /\ pc = "authenticate"
    /\ \E ok \in BOOLEAN :
         /\ auth' = [auth EXCEPT !.attempts = @ + 1, !.ok = ok,
                                 !.writes = IF ok THEN @ + 1 ELSE @]
         /\ keyring' = IF ok THEN MasterToken ELSE keyring
         /\ pc' = IF ok THEN "roots" ELSE "exited"
    /\ UNCHANGED << config, heap, nextOid, notes, todos, categories, gnote, i, page, parent,
                    text, lines, x, last_block, hist, cp, service, throttle, clock, timing >>

-----------------------------------------------------------------------------
(* The module body: roots, categories, the import loop *)

Str_Notes == << "N", "o", "t", "e", "s" >>
Str_TODOs == << "T", "O", "D", "O", "s" >>

\* notes = Page('Notes', root_uuid); todos = Page('TODOs', root_uuid);
\* create_page(notion, notes)
CreateNotesRoot ==
    /\ pc = "roots"
    /\ heap' = (nextOid :> Page(Str_Notes, config.root_uuid)) @@
               ((nextOid + 1) :> Page(Str_TODOs, config.root_uuid))
    /\ notes' = nextOid
    /\ todos' = nextOid + 1
    /\ nextOid' = nextOid + 2
    /\ CallCreatePage(nextOid, "todos_root")
    /\ UNCHANGED << config, categories, gnote, i, page, parent, text, lines, x,
                    last_block, hist, service, throttle, clock, timing, keyring, auth >>

\* create_page(notion, todos)
CreateTodosRoot ==
    /\ pc = "todos_root"
    /\ CallCreatePage(todos, "categories")
    /\ UNCHANGED << config, heap, nextOid, notes, todos, categories, gnote, i, page, parent,
                    text, lines, x, last_block, hist, service, throttle, clock,
                    timing, keyring, auth >>

\* categories = {'Notes': notes, 'TODOs': todos}
InitCategories ==
    /\ pc = "categories"
    /\ categories' = (Str_Notes :> notes) @@ (Str_TODOs :> todos)
    /\ pc' = "loop"
    /\ UNCHANGED << config, heap, nextOid, notes, todos, gnote, i, page, parent,
                    text, lines, x, last_block, hist, cp, service, throttle, clock,
                    timing, keyring, auth >>

(* Source items *)

Labels == { << "W" >>, << "H" >> }

\* note.labels.all(): up to two labels, no label twice
LabelLists ==
    { << >> } \cup { << l >> : l \in Labels }
              \cup { << lm[1], lm[2] >> : lm \in { q \in Labels \X Labels : q[1] # q[2] } }

NoteTexts == { << >>, JoinWith(<< Str_a, Str_second >>, S1(Newline)) }

TodoItem(k) == [text |-> [j \in 1..k |-> "t"], checked |-> (k % 2 = 1)]

TodoLists == { [k \in 1..n |-> TodoItem(k)] : n \in 0..MaxTodoItems }

Items ==
    { [kind |-> "note", title |-> << "n" >>, labels |-> ls, text |-> t] :
        ls \in LabelLists, t \in NoteTexts }
    \cup
    { [kind |-> "list", title |-> << "l" >>, labels |-> ls, items |-> its] :
        ls \in LabelLists, its \in TodoLists }

\* `for gnote in gnotes`: the next item, whatever keep.find / keep.all gave
LoopNext ==
    /\ pc = "loop"
    /\ i < MaxItems
    /\ \E it \in Items : gnote' = it
    /\ i' = i + 1
    /\ pc' = "item"
    /\ UNCHANGED << config, heap, nextOid, notes, todos, categories, page, parent,
                    text, lines, x, last_block, hist, cp, service, throttle, clock,
                    timing, keyring, auth >>

LoopEnd ==
    /\ pc = "loop"
    /\ pc' = "done"
    /\ UNCHANGED << config, heap, nextOid, notes, todos, categories, gnote, i, page, parent,
                    text, lines, x, last_block, hist, cp, service, throttle, clock,
                    timing, keyring, auth >>

IsList(it) == it.kind = "list"

Skipped(it) == IF IsList(it) THEN ~config.import_todos ELSE ~config.import_notes

RootOf(it) == IF IsList(it) THEN todos ELSE notes

\* `continue` on a disabled kind
ItemSkip ==
    /\ pc = "item"
    /\ Skipped(gnote)
    /\ pc' = "loop"
    /\ UNCHANGED << config, heap, nextOid, notes, todos, categories, gnote, i, page, parent,
                    text, lines, x, last_block, hist, cp, service, throttle, clock,
                    timing, keyring, auth >>

\* a key that leaves the root out
ParentKeyBroken(rootName, parentName) == parentName

\* f"{rootName}.{parentName}"
ParentKey(rootName, parentName) == rootName \o << "." >> \o parentName

\* the heap without the object `page` was bound to, with a new object in it
Rebind(h, old, oid, obj) ==
    [o \in (DOMAIN h \ { old }) \cup { oid } |-> IF o = oid THEN obj ELSE h[o]]

\* importPageWithCategories when the parent exists: no label, or a known key
ImportPageKnownParent ==
    /\ pc = "item"
    /\ ~Skipped(gnote)
    /\ LET root == RootOf(gnote)
           cats == gnote.labels
           key == ParentKey(heap[root].title, cats[1])
           par == IF Len(cats) = 0 THEN root ELSE categories[key]
       IN  /\ IF Len(cats) = 0 THEN TRUE ELSE key \in DOMAIN categories
           /\ heap' = Rebind(heap, page, nextOid, Page(gnote.title, heap[par].id))
           /\ page' = nextOid
           /\ nextOid' = nextOid + 1
    /\ pc' = "fill"
    /\ UNCHANGED << config, notes, todos, categories, gnote, i, parent, text, lines, x,
                    last_block, hist, cp, service, throttle, clock, timing, keyring, auth >>

\* importPageWithCategories on the first encounter of a key:
\* parent = Page(parentName, root.id); create_page(notion, parent)
ImportPageNewParent ==
    /\ pc = "item"
    /\ ~Skipped(gnote)
    /\ LET root == RootOf(gnote)
           cats == gnote.labels
       IN  /\ Len(cats) > 0
           /\ ParentKey(heap[root].title, cats[1]) \notin DOMAIN categories
           /\ heap' = heap @@ (nextOid :> Page(cats[1], heap[root].id))
           /\ parent' = nextOid
           /\ nextOid' = nextOid + 1
           /\ service' = [service EXCEPT !.catMade =
                            LET pair == << heap[root].title, cats[1] >>
                            IN  IF pair \in DOMAIN @ THEN [@ EXCEPT ![pair] = @ + 1]
                                ELSE @ @@ (pair :> 1)]
           /\ CallCreatePage(nextOid, "import_return")
    /\ UNCHANGED << config, notes, todos, categories, gnote, i, page, text, lines, x,
                    last_block, hist, throttle, clock, timing, keyring, auth >>

\* a variant that builds the item's page from the parent's id as it was
\* before create_page(notion, parent)
ImportPageReturnStaleId ==
    /\ pc = "import_return"
    /\ categories' = (ParentKey(heap[RootOf(gnote)].title, gnote.labels[1]) :> parent)
                     @@ categories
    /\ heap' = Rebind(heap, page, nextOid, Page(gnote.title, EmptyId))
    /\ page' = nextOid
    /\ nextOid' = nextOid + 1
    /\ parent' = 0
    /\ pc' = "fill"
    /\ UNCHANGED << config, notes, todos, gnote, i, text, lines, x, last_block, hist,
                    cp, service, throttle, clock, timing, keyring, auth >>

\* categories[parentKey] = parent; return Page(note.title, parent.id)
ImportPageReturn ==
    /\ pc = "import_return"
    /\ categories' = (ParentKey(heap[RootOf(gnote)].title, gnote.labels[1]) :> parent)
                     @@ categories
    /\ heap' = Rebind(heap, page, nextOid, Page(gnote.title, heap[parent].id))
    /\ page' = nextOid
    /\ nextOid' = nextOid + 1
    /\ parent' = 0
    /\ pc' = "fill"
    /\ UNCHANGED << config, notes, todos, gnote, i, text, lines, x, last_block, hist,
                    cp, service, throttle, clock, timing, keyring, auth >>

RECURSIVE AddTodos(_, _)
AddTodos(pg, its) ==
    IF Len(its) = 0 THEN pg
    ELSE AddTodos(add_todo(pg, its[1].text, its[1].checked), Tail(its))

\* parseList(gnote, page); create_page(notion, page)
ParseListAndCreate ==
    /\ pc = "fill"
    /\ IsList(gnote)
    /\ heap' = [heap EXCEPT ![page] = AddTodos(@, gnote.items)]
    /\ CallCreatePage(page, "loop")
    /\ UNCHANGED << config, nextOid, notes, todos, categories, gnote, i, page, parent,
                    text, lines, x, last_block, hist, service, throttle, clock,
                    timing, keyring, auth >>

\* parseNote(gnote, page, keep, config): parseTextToPage(note.text, page, config)
ParseNote ==
    /\ pc = "fill"
    /\ ~IsList(gnote)
    /\ text' = gnote.text
    /\ pc' = "parseTextToPage"
    /\ UNCHANGED << config, heap, nextOid, notes, todos, categories, gnote, i, page, parent,
                    lines, x, last_block, hist, cp, service, throttle, clock, timing,
                    keyring, auth >>

\* create_page(notion, page) after parseNote
CreateNotePage ==
    /\ pc = "create_item_page"
    /\ CallCreatePage(page, "loop")
    /\ UNCHANGED << config, heap, nextOid, notes, todos, categories, gnote, i, page, parent,
                    text, lines, x, last_block, hist, service, throttle, clock,
                    timing, keyring, auth >>

(* A run of the script *)

BoolValues == { << "t", "r", "u", "e" >>, << "F", "a", "l", "s", "e" >> }

StoredTokens == { NoToken, [present |-> TRUE, value |-> << >>],
                  [present |-> TRUE, value |-> << "k" >>] }

\* url2uuid(config.root_url): the dashed identifier, or '' for a malformed URL
RootUuids == { RootUuid, EmptyId }

InitRun ==
    /\ pc = "login"
    /\ \E n \in BoolValues, t \in BoolValues,
          m \in { << >>, << "f", "a", "l", "s", "e" >> }, r \in RootUuids :
         config = ConfigOf(n, t, m, r)
    /\ keyring \in StoredTokens
    /\ heap = << >>
    /\ page = 0
    /\ nextOid = 1
    /\ notes = 0 /\ todos = 0 /\ parent = 0
    /\ categories = << >>
    /\ gnote = [kind |-> "unbound"]
    /\ i = 0
    /\ text = << >> /\ lines = << >> /\ x = 0 /\ last_block = None /\ hist = NoHist
    /\ cp = NoFrame
    /\ service = IdleService
    /\ throttle = [last_call |-> 0]
    /\ clock = 1
    /\ timing = IdleTiming
    /\ auth = NoAuth

NextRun ==
    \/ Login
    \/ Authenticate
    \/ CreateNotesRoot
    \/ CreateTodosRoot
    \/ InitCategories
    \/ LoopNext
    \/ LoopEnd
    \/ ItemSkip
    \/ ImportPageKnownParent
    \/ ImportPageNewParent
    \/ ImportPageReturn
    \/ ParseListAndCreate
    \/ ParseNote
    \/ ParseTextToPageEnter
    \/ ParseTextToPageLine
    \/ ParseTextToPageReturn
    \/ CreateNotePage
    \/ CreatePageRequest(0)
    \/ CreatePageAppend
    \/ CreatePageAssign

SpecRun == InitRun /\ [][NextRun]_vars


-----------------------------------------------------------------------------
(* Properties *)

BodyLines == splitlines(text)

AllParagraphs(ls) == \A k \in 1..Len(ls) : parseBlock(ls[k]).type = Paragraph

Kids == heap[page].children

RECURSIVE Flatten(_)
Flatten(bs) == IF Len(bs) = 0 THEN << >> ELSE bs[1] \o Flatten(Tail(bs))

\* C1: in merged mode (merge_paragraphs truthy) a body of one or more lines
\* that are all Paragraph-kind, shorter in all than the 2000-character cap,
\* ends as exactly one block whose text is the lines joined by single
\* newlines, with nothing before or after.
C1_MergedBodyIsJoinedLines ==
    ( /\ pc = "parsed"
      /\ Truthy(config.merge_paragraphs)
      /\ Len(BodyLines) >= 1
      /\ AllParagraphs(BodyLines)
      /\ Len(JoinWith(BodyLines, S1(Newline))) < MergeCap )
    => Kids = << [type |-> Paragraph, text |-> JoinWith(BodyLines, S1(Newline))] >>

\* C2: with merging disabled a body of n lines ends as exactly n blocks, the
\* k-th being parseBlock of the k-th line.
C2_UnmergedOneBlockPerLine ==
    ( pc = "parsed" /\ ~Truthy(config.merge_paragraphs) )
    => Kids = [k \in 1..Len(BodyLines) |-> parseBlock(BodyLines[k])]

\* C7: parseTextToPage runs merged exactly when the configured value is
\* "true" in any letter case, and unmerged when it is "false" in any case.
C7_MergeIsBooleanToggle ==
    pc = "parsed" =>
      /\ (hist.branch = "merged") <=> (Lower(config.merge_paragraphs) = << "t", "r", "u", "e" >>)
      /\ (Lower(config.merge_paragraphs) = << "f", "a", "l", "s", "e" >>) => (hist.branch = "unmerged")

\* C9 as stated: every block built by concatenating a pending Paragraph with
\* at least one further line is strictly shorter than 2000 characters.
C9_MergedBelowCap ==
    pc \in { "parse_loop", "parsed" } =>
      \A k \in hist.concat : Len(Kids[k].text) < MergeCap

\* C9 as amended: every block built by concatenating a pending Paragraph with
\* at least one further line (the synthetic last line included) is at most
\* 2000 characters long; the joining newlines are not counted by the check.
C9_MergedAtMostCap ==
    pc \in { "parse_loop", "parsed" } =>
      /\ \A k \in hist.concat : Len(Kids[k].text) <= MergeCap
      /\ (last_block # None /\ hist.joined > 1) => Len(last_block.text) <= MergeCap

C9_Witness ==
    /\ pc = "parsed"
    /\ \E k \in hist.concat : Len(Kids[k].text) = MergeCap
    /\ Len(BodyLines) = 2

\* C4: two consecutive returns of throttle.wait (the instants at which
\* consecutive notion.pages.create calls are issued) are at least
\* 1/rate_limit seconds apart, and the first call of a run does not sleep.
C4_CallsSpaced ==
    /\ timing.calls >= 2 => timing.last_return - timing.prev_return >= Interval
    /\ timing.calls = 1 => timing.slept = 0

C4_Witness ==
    /\ timing.calls >= 2
    /\ timing.slept > 0
    /\ timing.slept < Interval
    /\ timing.last_return - timing.prev_return = Interval

\* C5: a page of n blocks is sent in ceil(n/100) append calls, each of 1 to
\* 100 blocks, and the batches in call order are page.children exactly.
C5_Batches ==
    (pc = "cp_append" \/ (pc = "idle" /\ page # 0)) =>
      LET n == Len(Kids)
          rec == service.received
      IN  /\ \A b \in 1..Len(rec) : Len(rec[b]) >= 1 /\ Len(rec[b]) <= BatchSize
          /\ Flatten(rec) = SubSeq(Kids, 1, Min(cp.idx, n))
          /\ pc = "idle" => /\ Flatten(rec) = Kids
                            /\ Len(rec) = (n + BatchSize - 1) \div BatchSize

C5_Witness ==
    /\ pc = "idle"
    /\ page # 0
    /\ Len(Kids) = 2 * BatchSize + 1
    /\ Len(service.received) = 3
    /\ Len(service.received[3]) = 1

\* C3: an item without labels is parented by its root; an item with labels by
\* the category page of (root title, first label), which is a persisted child
\* of that root titled by the label; at most one page is ever created per
\* pair, different pairs have different pages, and labels after the first
\* play no part.
C3_CategoryParents ==
    /\ \A pair \in DOMAIN service.catMade : service.catMade[pair] <= 1
    /\ pc \notin { "login", "authenticate", "exited", "roots" } =>
         \A r \in { notes, todos }, l \in Labels :
           LET key == ParentKey(heap[r].title, l)
               made == << heap[r].title, l >> \in DOMAIN service.catMade
           IN  /\ key \in DOMAIN categories => made
               /\ key \in DOMAIN categories =>
                    /\ heap[categories[key]].title = l
                    /\ heap[categories[key]].parent_id = heap[r].id
                    /\ heap[categories[key]].id # EmptyId
                    /\ \A r2 \in { notes, todos }, l2 \in Labels :
                         LET key2 == ParentKey(heap[r2].title, l2)
                         IN  (key2 \in DOMAIN categories /\ << r2, l2 >> # << r, l >>)
                             => categories[key2] # categories[key]
    /\ pc = "fill" =>
         LET root == RootOf(gnote)
             cats == gnote.labels
         IN  IF Len(cats) = 0
             THEN heap[page].parent_id = heap[root].id
             ELSE LET key == ParentKey(heap[root].title, cats[1])
                  IN  /\ key \in DOMAIN categories
                      /\ heap[page].parent_id = heap[categories[key]].id
                      /\ heap[categories[key]].parent_id = heap[root].id

\* the second item reuses the category page the first one made, and has a
\* second label
C3_Witness ==
    /\ pc = "fill"
    /\ i = 2
    /\ Len(gnote.labels) = 2
    /\ service.issued = 4
    /\ Cardinality(DOMAIN service.catMade) = 1

PageInv(pg) ==
    /\ pg.submitted <= 1
    /\ pg.assigned <= 1
    /\ (pg.assigned = 0) <=> (pg.id = EmptyId)
    /\ pg.assigned = 1 => pg.submitted = 1

\* C6: in a run without service failure every Page object built is handed to
\* notion.pages.create exactly once; its id is empty until it is assigned,
\* is assigned once, after all of the page's batches were appended, and does
\* not change afterwards.
C6_PageLifecycle ==
    /\ [] ( /\ \A o \in DOMAIN heap : PageInv(heap[o])
            /\ pc \in { "loop", "done" } =>
                 \A o \in DOMAIN heap : heap[o].submitted = 1 /\ heap[o].assigned = 1
            /\ \A o \in DOMAIN heap :
                 (o = service.lastReq.oid /\ heap[o].assigned = 1)
                 => Flatten(service.received) = heap[o].children )
    /\ [][ /\ \A o \in DOMAIN heap \cap DOMAIN heap' :
                heap[o].id # EmptyId => heap'[o].id = heap[o].id
           /\ \A o \in DOMAIN heap \ DOMAIN heap' : heap[o].submitted = 1 ]_vars

C6_Witness ==
    /\ pc = "done"
    /\ Cardinality(DOMAIN heap) = 5
    /\ \A o \in DOMAIN heap : heap[o].assigned = 1 /\ heap[o].id # EmptyId
    /\ Len(heap[page].children) = 2

\* C10: every notion.pages.create call carries as parent id the configured
\* root identifier (the two root pages only) or the non-empty id that an
\* earlier, completed create_page call of the run assigned.
C10_ParentPersistedFirst ==
    service.lastReq # NoRequest =>
      LET req == service.lastReq
      IN  IF req.oid \in { notes, todos }
          THEN req.parent_id = config.root_uuid
          ELSE /\ req.parent_id # EmptyId
               /\ \E o \in DOMAIN heap \ { req.oid } :
                    /\ heap[o].id = req.parent_id
                    /\ heap[o].assigned = 1
                    /\ heap[o].submitted = 1
               /\ req.id # 0 => req.parent_id[1] \in 1..(req.id - 1)

\* an item's page is submitted under a category page made in the same iteration
C10_Witness ==
    /\ pc = "cp_append"
    /\ service.lastReq.oid = page
    /\ Len(gnote.labels) > 0
    /\ service.lastReq.id = 4
    /\ service.lastReq.parent_id = << 3 >>

\* C8: interactive authentication is attempted at most once, and exactly when
\* the stored token is missing (or empty) or resuming with it failed; when it
\* fails the run ends with the credential store unwritten and no request sent
\* to the destination; the store is written only after it succeeded.
C8_LoginFlow ==
    /\ auth.attempts <= 1
    /\ auth.writes <= 1
    /\ pc \notin { "login", "authenticate" } =>
         (auth.attempts = 1 <=> (~TokenTruthy(auth.token) \/ auth.resumeFailed))
    /\ (auth.attempts = 1 /\ ~auth.ok) =>
         /\ pc = "exited"
         /\ auth.writes = 0
         /\ keyring = auth.token
         /\ service.issued = 0
         /\ service.lastReq = NoRequest
    /\ pc = "exited" => auth.attempts = 1 /\ ~auth.ok
    /\ auth.writes = 1 => auth.attempts = 1 /\ auth.ok
    /\ (pc # "login" /\ keyring # auth.token) => auth.writes = 1

C8_Witness ==
    /\ pc = "exited"
    /\ auth.resumeFailed
    /\ TokenTruthy(keyring)

=============================================================================
